---- MODULE Spec2Model ----
(***************************************************************************)
(* Model of liftover.py: ChainIndex.construct_from_chain_file (the chain   *)
(* format parser) and ChainIndex.liftover (the bisection query).           *)
(*                                                                         *)
(* A Python str is modelled by the sequence of its characters; a line of    *)
(* the chain file is the str the file iterator yields, line end included.  *)
(* Objects live in heaps: pairs[k] is the k-th SeqPair created, sets[k]    *)
(* the k-th set object created, seqnames maps a key to the id of the set   *)
(* object it references.  A set object is kept as the sequence of its      *)
(* members in iteration order; the place a new member takes in that order  *)
(* depends on the hash of the object (its address) and is not determined   *)
(* by the program text.                                                    *)
(***************************************************************************)
EXTENDS Integers, Sequences, FiniteSets, TLC

VARIABLES
  pc,        \* "build": in the loop of construct_from_chain_file; "done": the
             \* index was returned; "failed": an exception left the function
  line,      \* the loop variable: the line just read
  last,      \* the last header or body line read (skipped lines excluded)
  pair,      \* local 'pair': id of the current SeqPair, Unbound before a header
  s1, s2,    \* locals 's1', 's2': the start positions of the next block
  pairs,     \* heap of SeqPair objects
  sets,      \* heap of set objects
  seqnames,  \* ChainIndex.seqnames
  err,       \* the exception that left construct_from_chain_file
  call,      \* arguments of the last liftover call
  res,       \* its result
  prev       \* the call whose result the last call lifted back, if any

vars == <<pc, line, last, pair, s1, s2, pairs, sets, seqnames, err,
          call, res, prev>>

\* Bounds of the exploration: headers read, header and body lines read,
\* largest position queried.
MaxChains == 2
MaxLines == 4
MaxPos == 12

----------------------------------------------------------------------------
\* Strings.

\* str.isspace for the characters of the model.
Whitespace == {" ", "\t", "\n", "\r"}

Digits == {"0", "1", "2", "3", "4", "5", "6", "7", "8", "9"}

DigitVal(c) == CASE c = "0" -> 0 [] c = "1" -> 1 [] c = "2" -> 2 [] c = "3" -> 3
                 [] c = "4" -> 4 [] c = "5" -> 5 [] c = "6" -> 6 [] c = "7" -> 7
                 [] c = "8" -> 8 [] c = "9" -> 9

\* str.split(): the maximal runs of characters that are not white space.
RECURSIVE SplitFrom(_, _, _, _)
SplitFrom(s, i, cur, acc) ==
  IF i > Len(s)
    THEN IF cur = <<>> THEN acc ELSE Append(acc, cur)
    ELSE IF s[i] \in Whitespace
      THEN SplitFrom(s, i + 1, <<>>, IF cur = <<>> THEN acc ELSE Append(acc, cur))
      ELSE SplitFrom(s, i + 1, Append(cur, s[i]), acc)

split(s) == SplitFrom(s, 1, <<>>, <<>>)

\* str.startswith(prefix).
startswith(s, prefix) ==
  IF Len(s) < Len(prefix) THEN FALSE ELSE SubSeq(s, 1, Len(prefix)) = prefix

\* s.rstrip() == '': s has white space only.
IsBlank(s) == \A i \in 1..Len(s) : s[i] \in Whitespace

\* int(tok) for a str without white space: an optional sign, then decimal
\* digits, single underscores allowed between digits; anything else raises
\* ValueError.
Unsigned(tok) ==
  IF tok = <<>> THEN tok ELSE IF tok[1] \in {"+", "-"} THEN Tail(tok) ELSE tok

IsInt(tok) ==
  LET d == Unsigned(tok)
  IN  IF d = <<>>
        THEN FALSE
        ELSE /\ \A i \in 1..Len(d) : d[i] \in Digits \cup {"_"}
             /\ d[1] # "_"
             /\ d[Len(d)] # "_"
             /\ \A i \in 1..(Len(d) - 1) : ~(d[i] = "_" /\ d[i + 1] = "_")

RECURSIVE DecimalValue(_, _)
DecimalValue(d, acc) ==
  IF d = <<>>
    THEN acc
    ELSE IF Head(d) = "_"
      THEN DecimalValue(Tail(d), acc)
      ELSE DecimalValue(Tail(d), 10 * acc + DigitVal(Head(d)))

int(tok) ==
  IF IF tok = <<>> THEN FALSE ELSE tok[1] = "-"
    THEN 0 - DecimalValue(Unsigned(tok), 0)
    ELSE DecimalValue(Unsigned(tok), 0)

\* items[i] with Python's 0-based index.
Item(items, i) == items[i + 1]

----------------------------------------------------------------------------
\* Input alphabet.

Names == {<<"A">>, <<"B">>}
Strands == {<<"+">>, <<"-">>}
SizeToks == {<<"2">>}
GapToks == {<<"0">>, <<"1">>}
Positions == 0..MaxPos

\* float('nan') and the unbound local 'pair'.
NaN == "nan"
Unbound == 0

Chain == <<"c", "h", "a", "i", "n">>

\* The line made of the given tokens: one blank between two tokens, a line
\* feed at the end.
RECURSIVE Join(_)
Join(items) ==
  IF items = <<>>
    THEN <<>>
    ELSE IF Len(items) = 1
      THEN items[1]
      ELSE items[1] \o <<" ">> \o Join(Tail(items))

TextLine(items) == Join(items) \o <<"\n">>

\* chain score nameA sizeA strandA startA endA nameB sizeB strandB startB endB id
Header(kw, nA, stA, a, nB, stB, b) ==
  TextLine(<<kw, <<"0">>, nA, <<"0">>, stA, a, <<"0">>, nB, <<"0">>, stB, b,
             <<"0">>, <<"0">>>>)

\* The headers read: every pair of names, same strand and cross strand, and a
\* line whose first word only begins with 'chain'.
HeaderLines ==
  {Header(Chain, nA, <<"+">>, <<"1">>, nB, stB, <<"0">>) :
     nA \in Names, nB \in Names, stB \in Strands}
    \cup {Header(Chain \o <<"s">>, <<"A">>, <<"+">>, <<"1">>, <<"B">>, <<"+">>, <<"0">>)}

\* Lines that begin with 'chain' with a field missing or a start that is not
\* an integer.
BadHeaderLines ==
  { TextLine(SubSeq(split(Header(Chain, <<"A">>, <<"+">>, <<"0">>, <<"B">>, <<"+">>, <<"0">>)), 1, 7)),
    TextLine(SubSeq(split(Header(Chain, <<"A">>, <<"+">>, <<"0">>, <<"B">>, <<"+">>, <<"0">>)), 1, 10)),
    Header(Chain, <<"A">>, <<"+">>, <<"x">>, <<"B">>, <<"+">>, <<"0">>),
    Header(Chain, <<"A">>, <<"+">>, <<"0">>, <<"B">>, <<"+">>, <<"x">>),
    TextLine(<<Chain \o <<"s", "a", "w">>, <<"1">>, <<"2">>>>) }

\* Between two blocks of a chain at least one of the two gaps is not empty;
\* the last line of a chain is a bare size, here also after a blank.
BodyLines ==
  ({TextLine(<<sz, n1, n2>>) : sz \in SizeToks, n1 \in GapToks, n2 \in GapToks}
     \ {TextLine(<<sz, <<"0">>, <<"0">>>>) : sz \in SizeToks})
    \cup {TextLine(<<sz>>) : sz \in SizeToks}
    \cup {<<" ">> \o TextLine(<<sz>>) : sz \in SizeToks}

\* Lines that are neither skipped nor headers nor three integers nor one
\* integer; the last two are a comment and a header after a blank.
BadBodyLines ==
  { TextLine(<<<<"x">>, <<"0">>, <<"0">>>>),
    TextLine(<<<<"1">>, <<"x">>, <<"0">>>>),
    TextLine(<<<<"1">>, <<"0">>, <<"x">>>>),
    TextLine(<<<<"1">>, <<"0">>>>),
    TextLine(<<<<"1">>, <<"0">>, <<"0">>, <<"0">>>>),
    TextLine(<<<<"x">>>>),
    <<" ">> \o TextLine(<<<<"#">>, <<"c">>>>),
    <<" ">> \o Header(Chain, <<"A">>, <<"+">>, <<"1">>, <<"B">>, <<"-">>, <<"0">>) }

\* A blank line, a line of white space, a comment.
SkipLines == { <<"\n">>, <<" ", "\n">>, <<"#", "c", "\n">> }

\* The empty str: a file never yields it, another iterable can.
EmptyLines == { <<>> }

----------------------------------------------------------------------------
\* Data model.

GapLessBlock(bs1, be1, bs2, be2) == [s1 |-> bs1, e1 |-> be1, s2 |-> bs2, e2 |-> be2]

SeqPair(seqname1, seqname2, strand1, strand2) ==
  [seqname1 |-> seqname1, seqname2 |-> seqname2,
   strand1 |-> strand1, strand2 |-> strand2, blocks |-> <<>>]

\* GapLessBlock.__lt__ and __gt__.
BlockLt(block, other) == block.e1 < other
BlockGt(block, other) == block.e2 > other

\* Insertion of x in sequence s so that it takes place i (0 = first).
InsertAt(s, i, x) == SubSeq(s, 1, i) \o <<x>> \o SubSeq(s, i + 1, Len(s))

Range(s) == {s[i] : i \in DOMAIN s}

\* seqnames[k] = NoKey: the dictionary has no entry for k.
NoKey == 0

NoLine == <<"">>

NoCall == <<>>
NoneRes == [kind |-> "None", name |-> <<>>, pos |-> 0]
RaisedRes(e) == [kind |-> e, name |-> <<>>, pos |-> 0]
PairRes(n, p) == [kind |-> "pair", name |-> n, pos |-> p]

----------------------------------------------------------------------------
Init ==
  /\ pc = "build"
  /\ line = NoLine
  /\ last = NoLine
  /\ pair = Unbound
  /\ s1 = NaN
  /\ s2 = NaN
  /\ pairs = <<>>
  /\ sets = <<>>
  /\ seqnames = [k \in Names |-> NoKey]
  /\ err = ""
  /\ call = NoCall
  /\ res = NoneRes
  /\ prev = NoCall

NoQuery == UNCHANGED <<call, res, prev>>

\* An exception leaves construct_from_chain_file: the ChainIndex under
\* construction and the other locals are dropped with the frame.  'pair' is
\* kept as the count of the headers read.
Raise(e) ==
  /\ pc' = "failed"
  /\ err' = e
  /\ s1' = NaN
  /\ s2' = NaN
  /\ pairs' = <<>>
  /\ sets' = <<>>
  /\ seqnames' = [k \in Names |-> NoKey]

Continue == UNCHANGED <<pc, err>>

\* Line 94: line[0] == '#' or line.rstrip() == '' (line[0] of the empty str
\* raises IndexError, see EmptyLine).
IsSkipped(ln) == IF Len(ln) = 0 THEN FALSE ELSE IF ln[1] = "#" THEN TRUE ELSE IsBlank(ln)

\* Line 96: line.startswith('chain').
IsHeader(ln) == startswith(ln, Chain)

\* Line 94 on the empty str: line[0] raises IndexError.
EmptyLine(ln) ==
  /\ pc = "build"
  /\ Len(ln) = 0
  /\ line' = ln
  /\ Raise("IndexError")
  /\ UNCHANGED <<last, pair>>
  /\ NoQuery

RECURSIVE SumBlocks(_, _)
SumBlocks(ps, k) == IF k = 0 THEN 0 ELSE Len(ps[k].blocks) + SumBlocks(ps, k - 1)

\* The header and body lines read so far: one per pair and one per block.
NumLines == Len(pairs) + SumBlocks(pairs, Len(pairs))

SkipLine(ln) ==
  /\ pc = "build"
  /\ Len(ln) > 0
  /\ IsSkipped(ln)
  /\ line' = ln
  /\ UNCHANGED <<pc, err, last, pair, s1, s2, pairs, sets, seqnames>>
  /\ NoQuery

\* Lines 96-107: a header line creates a SeqPair, registers it and resets the
\* start positions.  SeqPair(items[2], items[7], items[4], items[9]) raises
\* IndexError before 'pair' is assigned when the line has fewer than 10
\* tokens; int(items[5]) and int(items[10]) raise after the registration.
HeaderLine(ln) ==
  /\ pc = "build"
  /\ Len(ln) > 0
  /\ ~IsSkipped(ln)
  /\ IsHeader(ln)
  /\ Len(pairs) < MaxChains
  /\ NumLines < MaxLines
  /\ line' = ln
  /\ last' = ln
  /\ NoQuery
  /\ \E items \in {split(ln)} :
     IF Len(items) < 10
       THEN Raise("IndexError") /\ UNCHANGED pair
       ELSE LET pid == Len(pairs) + 1
                k1 == Item(items, 2)
                k2 == Item(items, 7)
                fresh == seqnames[k1] = NoKey
                sid == IF fresh THEN Len(sets) + 1 ELSE seqnames[k1]
                sets0 == IF fresh THEN Append(sets, <<>>) ELSE sets
            IN  /\ pair' = pid
                /\ IF ~IsInt(Item(items, 5))
                     THEN Raise("ValueError")
                     ELSE IF Len(items) < 11
                       THEN Raise("IndexError")
                       ELSE IF ~IsInt(Item(items, 10))
                         THEN Raise("ValueError")
                         ELSE /\ pairs' = Append(pairs,
                                    SeqPair(k1, k2, Item(items, 4), Item(items, 9)))
                              /\ \E i \in 0..Len(sets0[sid]) :
                                   sets' = [sets0 EXCEPT ![sid] = InsertAt(@, i, pid)]
                              /\ seqnames' = [seqnames EXCEPT ![k1] = sid, ![k2] = sid]
                              /\ s1' = int(Item(items, 5))
                              /\ s2' = int(Item(items, 10))
                              /\ Continue

\* Line 109: 'sz,n1,n2 = line.split()' succeeds for exactly three tokens.
Unpack3(items) == Len(items) = 3

\* Lines 119-120: the next start position.
NextStart_NoStep(e, n) == e + n

NextStart(e, n) == e + n + 1

\* Lines 108-120: a body line appends a block to the current pair and moves
\* the start positions.  A line that is not three tokens is read as one
\* integer (line 112, ValueError otherwise) with n1 = n2 = 0; int(sz) raises
\* at line 114, pair.append at line 117 when no header was read, int(n1) and
\* int(n2) at lines 119-120.
BodyLine(ln) ==
  /\ pc = "build"
  /\ Len(ln) > 0
  /\ ~IsSkipped(ln)
  /\ ~IsHeader(ln)
  /\ NumLines < MaxLines
  /\ line' = ln
  /\ last' = ln
  /\ UNCHANGED pair
  /\ NoQuery
  /\ \E items \in {split(ln)} :
     LET three == Unpack3(items)
         sz == items[1]
         n1 == IF three THEN items[2] ELSE <<"0">>
         n2 == IF three THEN items[3] ELSE <<"0">>
         bare == IF Len(items) = 1 THEN IsInt(sz) ELSE FALSE
     IN  IF IF three THEN ~IsInt(sz) ELSE ~bare
           THEN Raise("ValueError")
           ELSE IF pair = Unbound
             THEN Raise("UnboundLocalError")
             ELSE IF ~IsInt(n1) \/ ~IsInt(n2)
               THEN Raise("ValueError")
               ELSE LET e1 == s1 + int(sz)
                        e2 == s2 + int(sz)
                    IN  /\ pairs' = [pairs EXCEPT ![pair].blocks =
                                        Append(@, GapLessBlock(s1, e1, s2, e2))]
                        /\ s1' = NextStart(e1, int(n1))
                        /\ s2' = NextStart(e2, int(n2))
                        /\ UNCHANGED <<sets, seqnames>>
                        /\ Continue

\* Line 121: the input is exhausted and the index is returned; the locals of
\* construct_from_chain_file end with the call.
Return ==
  /\ pc = "build"
  /\ pc' = "done"
  /\ line' = NoLine
  /\ last' = NoLine
  /\ pair' = Unbound
  /\ s1' = NaN
  /\ s2' = NaN
  /\ UNCHANGED <<pairs, sets, seqnames, err>>
  /\ NoQuery

----------------------------------------------------------------------------
\* The query.

\* bisect.bisect_left(a, x): 'if a[mid] < x: lo = mid + 1 else: hi = mid'.
RECURSIVE BisectLeftLoop(_, _, _, _)
BisectLeftLoop(a, x, lo, hi) ==
  IF lo < hi
    THEN LET mid == (lo + hi) \div 2
         IN  IF BlockLt(a[mid + 1], x)
               THEN BisectLeftLoop(a, x, mid + 1, hi)
               ELSE BisectLeftLoop(a, x, lo, mid)
    ELSE lo

bisect_left(a, x) == BisectLeftLoop(a, x, 0, Len(a))

\* bisect.bisect_right(a, x): 'if x < a[mid]: hi = mid else: lo = mid + 1';
\* 'x < a[mid]' with an integer x is answered by a[mid].__gt__(x).
RECURSIVE BisectRightLoop(_, _, _, _)
BisectRightLoop(a, x, lo, hi) ==
  IF lo < hi
    THEN LET mid == (lo + hi) \div 2
         IN  IF BlockGt(a[mid + 1], x)
               THEN BisectRightLoop(a, x, lo, mid)
               ELSE BisectRightLoop(a, x, mid + 1, hi)
    ELSE lo

bisect_right(a, x) == BisectRightLoop(a, x, 0, Len(a))

\* Lines 131 and 143: the coverage tests.
CoversA_NoLowerEnd(block, pos) == pos <= block.e1

CoversA(block, pos) == block.s1 <= pos /\ pos <= block.e1
CoversB(block, pos) == block.s2 <= pos /\ pos <= block.e2

\* Lines 132-135 and 144-147: the coordinate transforms.
TargetA(p, block, pos) ==
  IF p.strand1 = p.strand2
    THEN PairRes(p.seqname2, block.s2 + (pos - block.s1))
    ELSE PairRes(p.seqname2, block.s2 + (block.e1 - 1 - pos))

TargetB(p, block, pos) ==
  IF p.strand1 = p.strand2
    THEN PairRes(p.seqname1, block.s1 + (pos - block.s2))
    ELSE PairRes(p.seqname1, block.s1 + (block.e2 - 1 - pos))

\* Lines 125-149: the loop over the pairs of the set, in iteration order
\* 'order' (a sequence of pair ids); ps is the heap of pairs.
RECURSIVE LiftoverLoop(_, _, _, _)
LiftoverLoop(ps, order, seqname, pos) ==
  IF order = <<>>
    THEN NoneRes
    ELSE LET p == ps[Head(order)]
             rest == LiftoverLoop(ps, Tail(order), seqname, pos)
         IN  IF seqname = p.seqname1
               THEN LET i == bisect_left(p.blocks, pos)
                    IN  IF i >= Len(p.blocks)
                          THEN RaisedRes("IndexError")
                          ELSE IF CoversA(p.blocks[i + 1], pos)
                                 THEN TargetA(p, p.blocks[i + 1], pos)
                                 ELSE rest
               ELSE IF seqname = p.seqname2
                 THEN LET i == bisect_right(p.blocks, pos)
                      IN  IF i >= Len(p.blocks)
                            THEN rest
                            ELSE IF CoversB(p.blocks[i + 1], pos)
                                   THEN TargetB(p, p.blocks[i + 1], pos)
                                   ELSE rest
                 ELSE rest

\* self.seqnames[seqname] on a defaultdict(set): a missing key is given a new
\* empty set, which is stored.
Liftover(seqname, pos, from) ==
  /\ pc = "done"
  /\ LET fresh == seqnames[seqname] = NoKey
         sets0 == IF fresh THEN Append(sets, <<>>) ELSE sets
         sid == IF fresh THEN Len(sets) + 1 ELSE seqnames[seqname]
     IN  /\ sets' = sets0
         /\ seqnames' = [seqnames EXCEPT ![seqname] = sid]
         /\ res' = LiftoverLoop(pairs, sets0[sid], seqname, pos)
  /\ call' = <<seqname, pos>>
  /\ prev' = from
  /\ UNCHANGED <<pc, line, last, pair, s1, s2, pairs, err>>

\* A query of the caller, who holds no result of an earlier call.
Query(seqname, pos) ==
  /\ call = NoCall
  /\ Liftover(seqname, pos, NoCall)

\* The caller is done with the result of the last call.
Discard ==
  /\ pc = "done"
  /\ call # NoCall
  /\ call' = NoCall
  /\ res' = NoneRes
  /\ prev' = NoCall
  /\ UNCHANGED <<pc, line, last, pair, s1, s2, pairs, sets, seqnames, err>>

\* The caller lifts the result of the last query back.
LiftBack ==
  /\ call # NoCall
  /\ prev = NoCall
  /\ res.kind = "pair"
  /\ Liftover(res.name, res.pos, call)

Next ==
  \/ \E ln \in EmptyLines : EmptyLine(ln)
  \/ \E ln \in SkipLines : SkipLine(ln)
  \/ \E ln \in HeaderLines \cup BadHeaderLines : HeaderLine(ln)
  \/ \E ln \in BodyLines \cup BadBodyLines : BodyLine(ln)
  \/ Return
  \/ \E seqname \in Names, pos \in Positions : Query(seqname, pos)
  \/ LiftBack
  \/ Discard


Spec == Init /\ [][Next]_vars

----------------------------------------------------------------------------
\* Vocabulary of the properties.

Called == pc = "done" /\ call # NoCall
QName == call[1]
QPos == call[2]

OneChain == pc = "done" /\ Len(pairs) = 1
SameStrand(p) == p.strand1 = p.strand2

\* The pairs of the set registered under name n.
Registered(n) == IF seqnames[n] = NoKey THEN {} ELSE Range(sets[seqnames[n]])

\* Position x lies in block b of genome A (of genome B), ends included.
InA(b, x) == b.s1 <= x /\ x <= b.e1
InB(b, x) == b.s2 <= x /\ x <= b.e2

\* Every order in which the members of sequence s can be iterated.
Orders(s) == {o \in [1..Len(s) -> Range(s)] : Range(o) = Range(s)}

\* A body line that is three integers or one integer, and what it encodes.
WellFormedBody(items) ==
  IF Len(items) = 3
    THEN IsInt(items[1]) /\ IsInt(items[2]) /\ IsInt(items[3])
    ELSE IF Len(items) = 1 THEN IsInt(items[1]) ELSE FALSE

\* A header with all its fields: 11 tokens at least, integer starts.
WellFormedHeader(items) ==
  IF Len(items) < 11 THEN FALSE ELSE IsInt(items[6]) /\ IsInt(items[11])

\* The first token of the line is the keyword of a header.
KeywordFirst(ln) == IF split(ln) = <<>> THEN FALSE ELSE split(ln)[1] = Chain

\* A header line is a line whose first token is the keyword, a body line a
\* line that is neither blank nor a comment nor a header line.
Malformed(ln) ==
  IF Len(ln) = 0
    THEN FALSE
    ELSE IF IsSkipped(ln)
      THEN FALSE
      ELSE IF KeywordFirst(ln)
        THEN ~WellFormedHeader(split(ln))
        ELSE ~WellFormedBody(split(ln))

SizeOf(items) == int(items[1])
GapAOf(items) == IF Len(items) = 3 THEN int(items[2]) ELSE 0
GapBOf(items) == IF Len(items) = 3 THEN int(items[3]) ELSE 0

----------------------------------------------------------------------------
\* C1: for an index built from one same-strand chain with nameA # nameB, every
\* block (s1,e1,s2,e2) and every p with s1 <= p <= e1: liftover(nameA, p)
\* returns (nameB, s2 + (p - s1)), and liftover of that result returns
\* (nameA, p).
C1_SameStrandRoundTrip ==
  (OneChain /\ Called /\ SameStrand(pairs[1])
     /\ pairs[1].seqname1 # pairs[1].seqname2) =>
    \A k \in 1..Len(pairs[1].blocks) :
      LET b == pairs[1].blocks[k]
          nameA == pairs[1].seqname1
          nameB == pairs[1].seqname2
      IN  /\ (QName = nameA /\ InA(b, QPos)) =>
                res = PairRes(nameB, b.s2 + (QPos - b.s1))
          /\ (/\ prev # NoCall
              /\ prev[1] = nameA
              /\ InA(b, prev[2])
              /\ call = <<nameB, b.s2 + (prev[2] - b.s1)>>) =>
                res = PairRes(nameA, prev[2])

\* C2: for an index built from one cross-strand chain with nameA # nameB,
\* every block and every p with s1 <= p <= e1: liftover(nameA, p) returns
\* (nameB, e2 - 1 - (p - s1)), which is (nameB, s2 + (e1 - 1 - p)), and
\* liftover of that result returns (nameA, p).
C2_CrossStrandRoundTrip ==
  (OneChain /\ Called /\ ~SameStrand(pairs[1])
     /\ pairs[1].seqname1 # pairs[1].seqname2) =>
    \A k \in 1..Len(pairs[1].blocks) :
      LET b == pairs[1].blocks[k]
          nameA == pairs[1].seqname1
          nameB == pairs[1].seqname2
      IN  /\ (QName = nameA /\ InA(b, QPos)) =>
                /\ res = PairRes(nameB, b.e2 - 1 - (QPos - b.s1))
                /\ res = PairRes(nameB, b.s2 + (b.e1 - 1 - QPos))
          /\ (/\ prev # NoCall
              /\ prev[1] = nameA
              /\ InA(b, prev[2])
              /\ call = <<nameB, b.e2 - 1 - (prev[2] - b.s1)>>) =>
                res = PairRes(nameA, prev[2])

\* C3: liftover never ends in an error: whatever the index, the name and the
\* position, it returns a (name, position) pair or absent.
C3_NeverRaises == Called => res.kind \in {"pair", "None"}

\* C4: for an index built from one chain, a position strictly inside the gap
\* between two consecutive blocks in genome A, queried as nameA, and a
\* position strictly inside the gap in genome B, queried as nameB, return
\* absent.
C4_GapAbsent ==
  (OneChain /\ Called) =>
    \A k \in 1..(Len(pairs[1].blocks) - 1) :
      LET b == pairs[1].blocks[k]
          c == pairs[1].blocks[k + 1]
      IN  /\ (QName = pairs[1].seqname1 /\ b.e1 < QPos /\ QPos < c.s1) =>
                res = NoneRes
          /\ (QName = pairs[1].seqname2 /\ b.e2 < QPos /\ QPos < c.s2) =>
                res = NoneRes

\* C4 (amended): for an index built from one chain (sizes and gaps not
\* negative, so that the blocks are in increasing order), a position strictly
\* inside a gap in genome A, queried as nameA, returns absent; a position
\* strictly inside a gap in genome B, queried as nameB, returns absent when
\* nameB differs from nameA (a name that is both nameA and nameB of the pair
\* is searched in genome A only).
C4_GapAbsentDistinctNames ==
  (OneChain /\ Called) =>
    \A k \in 1..(Len(pairs[1].blocks) - 1) :
      LET b == pairs[1].blocks[k]
          c == pairs[1].blocks[k + 1]
      IN  /\ (QName = pairs[1].seqname1 /\ b.e1 < QPos /\ QPos < c.s1) =>
                res = NoneRes
          /\ (/\ QName = pairs[1].seqname2
              /\ pairs[1].seqname1 # pairs[1].seqname2
              /\ b.e2 < QPos /\ QPos < c.s2) =>
                res = NoneRes

C4_Witness ==
  /\ OneChain /\ Called
  /\ Len(pairs[1].blocks) = 2
  /\ pairs[1].seqname1 # pairs[1].seqname2
  /\ QName = pairs[1].seqname2
  /\ pairs[1].blocks[1].e2 < QPos /\ QPos < pairs[1].blocks[2].s2
  /\ pairs[1].blocks[1].e1 + 1 = pairs[1].blocks[2].s1
  /\ res = NoneRes

\* C5: every SeqPair created so far is a member of the set registered under
\* its seqname1 and of the set registered under its seqname2.
C5_RegisteredUnderBoth ==
  pc \in {"build", "done"} =>
    \A k \in 1..Len(pairs) :
      k \in Registered(pairs[k].seqname1) /\ k \in Registered(pairs[k].seqname2)

\* C6: a body line (size, gapA, gapB; gaps 0 for a bare size) appends to the
\* pair of the most recent header exactly the block
\* (curA, curA + size, curB, curB + size), where curA, curB are the starts of
\* the header when the line is the first after it and endA + gapA + 1,
\* endB + gapB + 1 of the previous body line otherwise; no other pair changes.
C6_BlockOfBodyLine ==
  [][ (/\ pc = "build" /\ pc' = "build"
       /\ last # NoLine
       /\ ~IsSkipped(line') /\ ~IsHeader(line')) =>
        LET cur == Len(pairs)
            n == Len(pairs[cur].blocks)
            curA == IF IsHeader(last)
                      THEN int(split(last)[6])
                      ELSE pairs[cur].blocks[n].e1 + GapAOf(split(last)) + 1
            curB == IF IsHeader(last)
                      THEN int(split(last)[11])
                      ELSE pairs[cur].blocks[n].e2 + GapBOf(split(last)) + 1
            size == SizeOf(split(line'))
        IN  pairs' = [pairs EXCEPT ![cur].blocks =
                        Append(@, GapLessBlock(curA, curA + size, curB, curB + size))]
    ]_vars

C6_Witness ==
  /\ pc = "build"
  /\ Len(pairs) = 2
  /\ Len(pairs[1].blocks) = 1
  /\ Len(pairs[2].blocks) = 1
  /\ ~IsHeader(last) /\ last # NoLine

\* C7: the build fails and returns no index whenever it reads a header line
\* with fewer than 11 tokens or a non-integer start, or a body line that is
\* neither three integers nor one integer, whatever was read before.
C7_MalformedLineFails ==
  (line # NoLine /\ Malformed(line)) =>
    /\ pc = "failed"
    /\ err # ""
    /\ pairs = <<>>
    /\ \A n \in Names : seqnames[n] = NoKey

\* C8: liftover leaves the ChainIndex unchanged: the keys of the mapping, the
\* set under each key and the blocks of every pair are the same after a call.
C8_QueryLeavesIndex ==
  [][ (pc = "done" /\ call' # NoCall) =>
        (seqnames' = seqnames /\ sets' = sets /\ pairs' = pairs) ]_vars

\* C9: if at least one pair of the set registered under the queried name
\* covers the position, liftover returns the mapping of a covering pair,
\* never absent and never an error, whatever the iteration order.
C9_CoveringPairAnswers ==
  Called =>
    LET covering ==
          {k \in Registered(QName) :
             \E j \in 1..Len(pairs[k].blocks) :
               IF QName = pairs[k].seqname1
                 THEN InA(pairs[k].blocks[j], QPos)
                 ELSE QName = pairs[k].seqname2 /\ InB(pairs[k].blocks[j], QPos)}
    IN  covering # {} =>
          \E k \in covering : \E j \in 1..Len(pairs[k].blocks) :
            IF QName = pairs[k].seqname1
              THEN /\ InA(pairs[k].blocks[j], QPos)
                   /\ res = TargetA(pairs[k], pairs[k].blocks[j], QPos)
              ELSE /\ InB(pairs[k].blocks[j], QPos)
                   /\ res = TargetB(pairs[k], pairs[k].blocks[j], QPos)

\* C10: the result of liftover is determined by the chain text and the query:
\* an index built from the same lines, which can differ only in the iteration
\* order of its sets, returns the same result.
C10_Deterministic ==
  Called =>
    \A o \in Orders(sets[seqnames[QName]]) :
      LiftoverLoop(pairs, o, QName, QPos) = res
====
